---------------------------- MODULE Spec2Model ----------------------------
(***************************************************************************)
(* keshon/mskeys: the product-key decoder of main.go.                       *)
(*                                                                         *)
(* DecodeDigitalProductId (main.go:96-119) and decodeKeySegment            *)
(* (main.go:198-229) as a state machine that runs one statement group per  *)
(* step.  Byte slices are sequences of 0..255; Go index k is TLA+ index    *)
(* k+1.  Strings are sequences of one-character strings, "" is << >>.      *)
(* Memory is a record of the three byte arrays a call can touch: the       *)
(* caller's bytes (data), the 15-byte copy made at main.go:102 (segment)   *)
(* and the working copy made at main.go:204 (tmp).  A slice value is a     *)
(* reference [obj, off, len] into one of them, so that aliasing is         *)
(* something the model can get wrong.                                      *)
(***************************************************************************)
EXTENDS Integers, Sequences, FiniteSets, TLC

VARIABLES
    entry,       \* which function the caller invoked
    ncall,       \* 1 for the first call on the caller's bytes, 2 for the repeat
    pc,          \* position in the code
    mem,         \* [data, segment, tmp]: the byte arrays
    seg,         \* decodeKeySegment's parameter `segment` (a slice reference)
    tmp,         \* decodeKeySegment's `tmp` (a slice reference)
    decoded,     \* decodeKeySegment's `decoded`
    i,           \* outer loop counter, main.go:208
    j,           \* inner loop counter, main.go:210
    acc,         \* running remainder, main.go:209
    ret,         \* value decodeKeySegment returned
    phase,       \* which call site of decodeKeySegment is active
    offset,      \* fallback scan offset, main.go:111
    result,      \* value returned to the caller
    data0,       \* history: the caller's bytes as passed to the first call
    firstResult, \* history: what the first call returned
    reads,       \* history: indices of the caller's bytes read by this call
    calls,       \* history: decodeKeySegment calls made by this call
    rounds,      \* history: outer loop bodies run by the current decodeKeySegment
    steps,       \* history: inner loop bodies run by the current decodeKeySegment
    roundSteps,  \* history: inner loop bodies run in the current round
    scanIters,   \* history: fallback loop bodies run by this call
    primaryRet   \* history: what the primary attempt (main.go:105) returned

vars == <<entry, ncall, pc, mem, seg, tmp, decoded, i, j, acc, ret, phase,
          offset, result, data0, firstResult, reads, calls, rounds, steps,
          roundSteps, scanIters, primaryRet>>

-----------------------------------------------------------------------------
(* Program constants *)

\* a wrong alphabet: vowels kept, 8 and 9 lost
keyChars_Vowels ==
    <<"A", "B", "C", "D", "E", "F", "G", "H", "J", "K", "M", "P",
      "Q", "R", "T", "V", "W", "X", "Y", "2", "3", "4", "6", "7">>

\* main.go:21
keyChars ==
    <<"B", "C", "D", "F", "G", "H", "J", "K", "M", "P", "Q", "R",
      "T", "V", "W", "X", "Y", "2", "3", "4", "6", "7", "8", "9">>

\* main.go:97 `len(data) < 67`
MinDataLen == 67

\* main.go:111 `offset := 40`
ScanStart == 40

\* a wrong window: the primary attempt at the scan's first offset
KeyOffset_Shifted == ScanStart

\* main.go:103 `data[52:67]`
KeyOffset == 52

\* main.go:102, 199, 204: the segment length
KeyLen == 15

\* main.go:208 `i := 24`
TopRound == 24

\* a division that skips the most significant byte
TopByte_Short == KeyLen - 2

\* main.go:210 `j := 14`
TopByte == 14

\* main.go:224 `len(decoded) != 29`
KeyStrLen == 29

-----------------------------------------------------------------------------
(* Go primitives *)

Min(a, b) == IF a < b THEN a ELSE b

\* s[lo:hi]
Slice(s, lo, hi) == SubSeq(s, lo + 1, hi)

\* make([]byte, n)
MakeBytes(n) == [k \in 1..n |-> 0]

\* copy(dst, src): the first min(len(dst), len(src)) elements
CopyInto(dst, src) ==
    [k \in 1..Len(dst) |-> IF k <= Len(src) THEN src[k] ELSE dst[k]]

\* byte(x) of a non-negative int
ToByte(x) == x % 256

\* the bytes a slice reference denotes
Bytes(m, r) == SubSeq(m[r.obj], r.off + 1, r.off + r.len)

\* r[k]
Load(m, r, k) == m[r.obj][r.off + k + 1]

\* r[k] = v
Store(m, r, k, v) == [m EXCEPT ![r.obj][r.off + k + 1] = v]

NoRef == [obj |-> "none", off |-> 0, len |-> 0]

-----------------------------------------------------------------------------
(* decodeKeySegment, main.go:198-229 *)

\* a guard that lets longer inputs through
SegmentLenBad_Under(n) == n < KeyLen

\* main.go:199
SegmentLenBad(n) == n # KeyLen

\* `tmp := segment`: no copy, the division writes through the parameter
WorkingCopy_Alias(m, s) == [ref |-> s, mem |-> m]

\* main.go:204-205: tmp := make([]byte, 15); copy(tmp, segment)
WorkingCopy(m, s) ==
    [ref |-> [obj |-> "tmp", off |-> 0, len |-> KeyLen],
     mem |-> [m EXCEPT !.tmp = CopyInto(MakeBytes(KeyLen), Bytes(m, s))]]

\* main.go:211 `acc*256 + int(tmp[j])`
Accumulate(a, b) == a * 256 + b

\* main.go:212 `acc / 24`
Quotient(a) == a \div 24

\* a wrong modulus
Remainder_Wide(a) == a % 32

\* main.go:213 `acc % 24`
Remainder(a) == a % 24

\* append instead of prepend: least significant symbol first
AppendChar(c, d) == d \o <<c>>

\* main.go:216, 220 `append([]byte{c}, decoded...)`
PrependChar(c, d) == <<c>> \o d

\* without `i != 0`: a fifth hyphen in front
HyphenDue_NoZeroCheck(n) == n % 5 = 0

\* main.go:219
HyphenDue(n) == n % 5 = 0 /\ n # 0

\* main.go:198-205: the length guard and the working copy
decodeKeySegmentEntry ==
    /\ pc = "decodeKeySegment"
    /\ calls' = calls + 1
    /\ rounds' = 0
    /\ steps' = 0
    /\ roundSteps' = 0
    /\ IF SegmentLenBad(seg.len)
         THEN /\ ret' = << >>
              /\ pc' = "returned"
              /\ UNCHANGED <<mem, tmp, decoded, i, j, acc, reads>>
         ELSE LET w == WorkingCopy(mem, seg) IN
              /\ decoded' = << >>
              /\ tmp' = w.ref
              /\ mem' = w.mem
              /\ reads' = IF seg.obj = "data"
                            THEN reads \cup {seg.off + k : k \in 0..(Min(KeyLen, seg.len) - 1)}
                            ELSE reads
              /\ i' = TopRound
              /\ j' = 0
              /\ acc' = 0
              /\ pc' = "outer"
              /\ UNCHANGED ret
    /\ UNCHANGED <<entry, ncall, seg, phase, offset, result, data0, firstResult,
                   scanIters, primaryRet>>

\* main.go:208-210: the outer loop's test, `acc := 0`, the inner loop's start
RoundStart ==
    /\ pc = "outer"
    /\ IF i >= 0
         THEN /\ acc' = 0
              /\ j' = TopByte
              /\ rounds' = rounds + 1
              /\ roundSteps' = 0
              /\ pc' = "inner"
         ELSE /\ pc' = "check"
              /\ UNCHANGED <<acc, j, rounds, roundSteps>>
    /\ UNCHANGED <<entry, ncall, mem, seg, tmp, decoded, i, ret, phase, offset,
                   result, data0, firstResult, reads, calls, steps, scanIters,
                   primaryRet>>

\* main.go:210-214: the inner loop's test and one division step
InnerStep ==
    /\ pc = "inner"
    /\ IF j >= 0
         THEN LET a == Accumulate(acc, Load(mem, tmp, j)) IN
              /\ mem' = Store(mem, tmp, j, ToByte(Quotient(a)))
              /\ acc' = Remainder(a)
              /\ j' = j - 1
              /\ steps' = steps + 1
              /\ roundSteps' = roundSteps + 1
              /\ UNCHANGED pc
         ELSE /\ pc' = "emit"
              /\ UNCHANGED <<mem, acc, j, steps, roundSteps>>
    /\ UNCHANGED <<entry, ncall, seg, tmp, decoded, i, ret, phase, offset,
                   result, data0, firstResult, reads, calls, rounds, scanIters,
                   primaryRet>>

\* main.go:216-221 and the outer loop's `i--`; an index outside keyChars panics
Emit ==
    /\ pc = "emit"
    /\ IF acc + 1 \in DOMAIN keyChars
         THEN LET d == PrependChar(keyChars[acc + 1], decoded) IN
              /\ decoded' = IF HyphenDue(i) THEN PrependChar("-", d) ELSE d
              /\ i' = i - 1
              /\ pc' = "outer"
         ELSE /\ pc' = "panic"
              /\ UNCHANGED <<decoded, i>>
    /\ UNCHANGED <<entry, ncall, mem, seg, tmp, j, acc, ret, phase, offset,
                   result, data0, firstResult, reads, calls, rounds, steps,
                   roundSteps, scanIters, primaryRet>>

\* main.go:224-228
decodeKeySegmentReturn ==
    /\ pc = "check"
    /\ ret' = IF Len(decoded) # KeyStrLen THEN << >> ELSE decoded
    /\ pc' = "returned"
    /\ UNCHANGED <<entry, ncall, mem, seg, tmp, decoded, i, j, acc, phase,
                   offset, result, data0, firstResult, reads, calls, rounds,
                   steps, roundSteps, scanIters, primaryRet>>

-----------------------------------------------------------------------------
(* DecodeDigitalProductId, main.go:96-119 *)

\* main.go:97
DataTooShort(n) == n < MinDataLen

\* main.go:111 `offset < len(data)-15`
ScanContinues(o, n) == o < n - KeyLen

\* main.go:111: the offsets the fallback loop visits when no window decodes
FallbackOffsets(n) == {o \in ScanStart..(ScanStart + n) : ScanContinues(o, n)}

\* main.go:96-105: the length guard, the copy of data[52:67], the primary call
DecodeDigitalProductIdEntry ==
    /\ pc = "start"
    /\ entry = "DecodeDigitalProductId"
    /\ IF DataTooShort(Len(mem.data))
         THEN /\ result' = << >>
              /\ pc' = "done"
              /\ UNCHANGED <<mem, seg, phase, reads>>
         ELSE /\ mem' = [mem EXCEPT !.segment =
                            CopyInto(MakeBytes(KeyLen),
                                     Slice(mem.data, KeyOffset, KeyOffset + KeyLen))]
              /\ reads' = reads \cup (KeyOffset..(KeyOffset + KeyLen - 1))
              /\ seg' = [obj |-> "segment", off |-> 0, len |-> KeyLen]
              /\ phase' = "primary"
              /\ pc' = "decodeKeySegment"
              /\ UNCHANGED result
    /\ UNCHANGED <<entry, ncall, tmp, decoded, i, j, acc, ret, offset, data0,
                   firstResult, calls, rounds, steps, roundSteps, scanIters,
                   primaryRet>>

\* main.go:198: a caller passes its bytes to decodeKeySegment itself
decodeKeySegmentCall ==
    /\ pc = "start"
    /\ entry = "decodeKeySegment"
    /\ seg' = [obj |-> "data", off |-> 0, len |-> Len(mem.data)]
    /\ phase' = "direct"
    /\ pc' = "decodeKeySegment"
    /\ UNCHANGED <<entry, ncall, mem, tmp, decoded, i, j, acc, ret, offset,
                   result, data0, firstResult, reads, calls, rounds, steps,
                   roundSteps, scanIters, primaryRet>>

\* main.go:111-113: the loop test at offset o, then `seg := data[o:o+15]` and
\* the call, or main.go:118 when the loop ends
ScanAt(o) ==
    IF ScanContinues(o, Len(mem.data))
      THEN /\ offset' = o
           /\ seg' = [obj |-> "data", off |-> o, len |-> KeyLen]
           /\ scanIters' = scanIters + 1
           /\ phase' = "scan"
           /\ pc' = "decodeKeySegment"
           /\ UNCHANGED result
      ELSE /\ result' = << >>
           /\ pc' = "done"
           /\ UNCHANGED <<offset, seg, scanIters, phase>>

\* main.go:106-118: what the caller does with decodeKeySegment's value
AfterDecode ==
    /\ pc = "returned"
    /\ primaryRet' = IF phase = "primary" THEN ret ELSE primaryRet
    /\ IF phase = "direct" \/ ret # << >>
         THEN /\ result' = ret
              /\ pc' = "done"
              /\ UNCHANGED <<offset, seg, scanIters, phase>>
         ELSE IF phase = "primary"
                THEN ScanAt(ScanStart)
                ELSE ScanAt(offset + 1)
    /\ UNCHANGED <<entry, ncall, mem, tmp, decoded, i, j, acc, ret, data0,
                   firstResult, reads, calls, rounds, steps, roundSteps>>

\* the caller calls the same function again on the same bytes: every local
\* and both private arrays are fresh, the caller's bytes are as the first
\* call left them
CallAgain ==
    /\ pc = "done"
    /\ ncall = 1
    /\ ncall' = 2
    /\ firstResult' = result
    /\ mem' = [mem EXCEPT !.segment = << >>, !.tmp = << >>]
    /\ seg' = NoRef
    /\ tmp' = NoRef
    /\ decoded' = << >>
    /\ i' = 0
    /\ j' = 0
    /\ acc' = 0
    /\ ret' = << >>
    /\ phase' = "none"
    /\ offset' = 0
    /\ result' = << >>
    /\ reads' = {}
    /\ calls' = 0
    /\ rounds' = 0
    /\ steps' = 0
    /\ roundSteps' = 0
    /\ scanIters' = 0
    /\ primaryRet' = << >>
    /\ pc' = "start"
    /\ UNCHANGED <<entry, data0>>

-----------------------------------------------------------------------------
(* Inputs *)

\* lengths of the byte strings passed to decodeKeySegment: 0..MaxSegLen
MaxSegLen == 17

\* pseudo-random segments: Pattern(1..NumSeeds, 15)
NumSeeds == 5

\* keys whose encodings are placed in the window: KeyDigits(0..NumKeys)
NumKeys == 5

\* contents of the bytes around the window: Fill(0..NumFills, _)
NumFills == 2

\* buffers of 67..67+MaxExtra bytes (and of LongLen bytes)
MaxExtra == 1

\* the spec's all-zero buffer has 200 bytes
LongLen == 200

\* byte k (from 1) of the contents with seed f; seed 0 is all zero
Fill(f, k) == IF f = 0 THEN 0 ELSE (f * 77 + k * (2 * f + 1) * 13 + k * k * 7) % 256

Pattern(f, n) == [k \in 1..n |-> Fill(f, k)]

ConstSeg(b) == [k \in 1..15 |-> b]

\* the digits of a key, least significant first; KeyDigits(0) is 24^25 - 1
KeyDigits(t) == [k \in 1..25 |-> (23 + t * k * (k + t)) % 24]

\* D * m + c on a little-endian digit string in base `base`
RECURSIVE MulAdd(_, _, _, _)
MulAdd(D, m, c, base) ==
    IF D = << >> THEN << >>
    ELSE LET t == Head(D) * m + c
         IN <<t % base>> \o MulAdd(Tail(D), m, t \div base, base)

\* the little-endian digit string src (base m) as n digits in base `base`
RECURSIVE ToBaseFrom(_, _, _, _, _)
ToBaseFrom(src, k, m, base, D) ==
    IF k = 0 THEN D
    ELSE ToBaseFrom(src, k - 1, m, base, MulAdd(D, m, src[k], base))

ToBase(src, m, base, n) == ToBaseFrom(src, Len(src), m, base, [k \in 1..n |-> 0])

\* the 15-byte little-endian encoding of a key's base-24 value
Encode(K) == ToBase(K, 24, 256, 15)

\* the 27 base-24 digits of a 15-byte little-endian value (24^27 > 2^120)
Digits24(W) == ToBase(W, 256, 24, 27)

Keys == {KeyDigits(t) : t \in 0..NumKeys}

EncodedKeys == {Encode(K) : K \in Keys}

\* byte 14 leaves remainder 23 and byte 13 is 255: the largest accumulator
MaxAccSeg == [k \in 1..15 |-> IF k = 15 THEN 23 ELSE 255]

Segments ==
    {ConstSeg(b) : b \in {0, 1, 23, 24, 255}}
        \cup {MaxAccSeg}
        \cup EncodedKeys
        \cup {Pattern(f, 15) : f \in 1..NumSeeds}

\* n bytes of contents f with segment s as bytes 52..66
Buffer(n, f, s) ==
    [k \in 1..n |-> IF k - 1 \in 52..66 THEN s[k - 52] ELSE Fill(f, k)]

Inputs ==
    {[entry |-> "decodeKeySegment", bytes |-> Pattern(f, n)] :
        f \in 0..NumFills, n \in (0..MaxSegLen) \cup {67}}
    \cup {[entry |-> "decodeKeySegment", bytes |-> s] : s \in Segments}
    \cup {[entry |-> "DecodeDigitalProductId", bytes |-> Pattern(f, n)] :
            f \in 0..NumFills, n \in 0..66}
    \cup {[entry |-> "DecodeDigitalProductId", bytes |-> Buffer(n, f, s)] :
            n \in (67..(67 + MaxExtra)) \cup {LongLen},
            f \in 0..NumFills, s \in Segments}

-----------------------------------------------------------------------------
(* Specification *)

Init ==
    /\ \E inp \in Inputs :
          /\ entry = inp.entry
          /\ mem = [data |-> inp.bytes, segment |-> << >>, tmp |-> << >>]
          /\ data0 = inp.bytes
    /\ ncall = 1
    /\ pc = "start"
    /\ seg = NoRef
    /\ tmp = NoRef
    /\ decoded = << >>
    /\ i = 0
    /\ j = 0
    /\ acc = 0
    /\ ret = << >>
    /\ phase = "none"
    /\ offset = 0
    /\ result = << >>
    /\ firstResult = << >>
    /\ reads = {}
    /\ calls = 0
    /\ rounds = 0
    /\ steps = 0
    /\ roundSteps = 0
    /\ scanIters = 0
    /\ primaryRet = << >>

Next ==
    \/ DecodeDigitalProductIdEntry
    \/ decodeKeySegmentCall
    \/ decodeKeySegmentEntry
    \/ RoundStart
    \/ InnerStep
    \/ Emit
    \/ decodeKeySegmentReturn
    \/ AfterDecode
    \/ CallAgain

Spec == Init /\ [][Next]_vars

\* the code is sequential: a call that can take a step takes it
FairSpec == Spec /\ WF_vars(Next)

-----------------------------------------------------------------------------
(* What the properties are stated with *)

\* the 24 symbols as the specification lists them
Alphabet ==
    <<"B", "C", "D", "F", "G", "H", "J", "K", "M", "P", "Q", "R",
      "T", "V", "W", "X", "Y", "2", "3", "4", "6", "7", "8", "9">>

AlphabetSet == {Alphabet[k] : k \in 1..24}

Excluded == {"A", "E", "I", "O", "U", "0", "1", "S", "Z", "L", "N"}

\* 0-based indices 5, 11, 17, 23
HyphenAt == {6, 12, 18, 24}

WellFormedKey(s) ==
    /\ Len(s) = 29
    /\ \A p \in 1..29 :
          IF p \in HyphenAt THEN s[p] = "-"
          ELSE s[p] \in AlphabetSet /\ s[p] \notin Excluded

NotHyphen(c) == c # "-"

Strip(s) == SelectSeq(s, NotHyphen)

\* the grouped form of a key given by its 25 digits, least significant first
Grouped(K) ==
    [p \in 1..29 |->
        IF p \in HyphenAt THEN "-" ELSE Alphabet[K[26 - (p - p \div 6)] + 1]]

Zeros(n) == [k \in 1..n |-> 0]

IsDPI == entry = "DecodeDigitalProductId"

IsDKS == entry = "decodeKeySegment"

\* decodeKeySegment has just returned from a call on a 15-byte segment
Returned15 == pc = "returned" /\ seg.len = 15

-----------------------------------------------------------------------------
(* C1 *)

\* C1: for every 15-byte input decodeKeySegment returns the empty string or
\* a string of 29 characters with hyphens at 0-based indices 5, 11, 17, 23
\* and every other character in BCDFGHJKMPQRTVWXY2346789 (so none of
\* A E I O U 0 1 S Z L N).
C1_KeyShape == Returned15 => (ret = << >> \/ WellFormedKey(ret))

\* a 15-byte segment decoded to a key with many different symbols
C1_Witness ==
    /\ Returned15
    /\ WellFormedKey(ret)
    /\ Cardinality({ret[p] : p \in 1..29}) >= 10

-----------------------------------------------------------------------------
(* C2 *)

\* C2: with V the little-endian value of the 15-byte segment, the key read
\* without hyphens has as its k-th character from the right (k = 0..24) the
\* symbol at index (V div 24^k) mod 24: the 25 low-order base-24 digits of
\* V, most significant first; the digits above them are discarded.
\* V has 120 bits, so its digits are computed on digit strings (Digits24).
C2_Base24Digits ==
    Returned15 =>
        LET D == Digits24(Bytes(mem, seg))
            key == Strip(ret)
        IN /\ Len(key) = 25
           /\ \A k \in 0..24 : key[25 - k] = Alphabet[D[k + 1] + 1]

\* a segment whose value is at least 24^25 (a discarded digit is not zero)
\* and whose key is not one repeated symbol
C2_Witness ==
    /\ Returned15
    /\ Len(ret) = 29
    /\ LET D == Digits24(Bytes(mem, seg)) IN D[26] + D[27] > 0
    /\ Cardinality({ret[p] : p \in 1..29}) >= 10

-----------------------------------------------------------------------------
(* C3 *)

\* C3: decodeKeySegment returns the empty string for every input whose
\* length is not 15, and DecodeDigitalProductId for every buffer of length
\* 0..66, without reading a byte of the input and without partial output.
C3_LengthGuards ==
    /\ (pc = "returned" /\ seg.len # 15) =>
            ret = << >> /\ decoded = << >> /\ rounds = 0 /\ reads = {}
    /\ (pc = "done" /\ IsDKS /\ Len(data0) # 15) =>
            result = << >> /\ reads = {}
    /\ (pc = "done" /\ IsDPI /\ Len(data0) <= 66) =>
            result = << >> /\ reads = {} /\ calls = 0 /\ decoded = << >>

\* decodeKeySegment returned from a call on 16 bytes that are not all zero
C3_Witness ==
    /\ pc = "done"
    /\ IsDKS
    /\ Len(data0) = 16
    /\ data0 # Zeros(16)
    /\ result = << >>

-----------------------------------------------------------------------------
(* C4 *)

\* C4: for every key K of 25 symbols and every buffer of at least 67 bytes
\* whose bytes 52..66 are the 15-byte little-endian encoding of K's value,
\* DecodeDigitalProductId returns K grouped, from the primary attempt and
\* without a fallback iteration, whatever the other bytes are.
C4_PrimaryPath ==
    (pc = "done" /\ IsDPI /\ Len(data0) >= 67) =>
        \A K \in Keys :
            Slice(data0, 52, 67) = Encode(K) =>
                /\ result = Grouped(K)
                /\ scanIters = 0
                /\ calls = 1

\* a 200-byte buffer, not zero outside the window, holding the encoding of
\* a key with several different symbols
C4_Witness ==
    /\ pc = "done"
    /\ IsDPI
    /\ Len(data0) = 200
    /\ data0[41] # 0
    /\ \E K \in Keys :
          /\ Slice(data0, 52, 67) = Encode(K)
          /\ result = Grouped(K)
          /\ Cardinality({K[k] : k \in 1..25}) >= 5

-----------------------------------------------------------------------------
(* C5 *)

-----------------------------------------------------------------------------
(* C6 *)

\* C6: DecodeDigitalProductId on an all-zero 200-byte buffer, and on any
\* buffer none of whose windows produces a 29-character result, returns the
\* empty string.  (Every 15-byte window produces 29 characters, see C10, so
\* the buffers without such a window are those shorter than 15 bytes.)
C6_TotalAbsence ==
    (pc = "done" /\ IsDPI /\ (data0 = Zeros(200) \/ Len(data0) < 15)) =>
        result = << >>

-----------------------------------------------------------------------------
(* C7 *)

\* C7: neither function ever writes to the caller's bytes: at every point
\* of a call they equal their value before it, the division's writes going
\* to the working copy; and a second call on the same bytes returns the
\* same string.
C7_Purity ==
    /\ mem.data = data0
    /\ (pc = "done" /\ ncall = 2) => result = firstResult

\* the second decodeKeySegment call on the caller's own 15 bytes has
\* returned; the working copy was divided down to something else
C7_Witness ==
    /\ pc = "done"
    /\ ncall = 2
    /\ IsDKS
    /\ seg = [obj |-> "data", off |-> 0, len |-> 15]
    /\ Len(result) = 29
    /\ result = firstResult
    /\ mem.tmp # data0
    /\ data0 # Zeros(15)

-----------------------------------------------------------------------------
(* C8 *)

\* len(buffer)-55 as a count: zero for a shorter buffer
ScanBound(n) == IF n >= 55 THEN n - 55 ELSE 0

C8_Counts ==
    /\ scanIters <= ScanBound(Len(data0))
    /\ calls <= 1 + scanIters
    /\ pc = "emit" => roundSteps = 15
    /\ Returned15 => (rounds = 25 /\ steps = 25 * 15)

\* C8: every call of DecodeDigitalProductId terminates; its fallback scan
\* runs at most len(buffer)-55 iterations, one decodeKeySegment call each
\* besides the primary attempt; each decodeKeySegment call it makes runs
\* exactly 25 rounds of exactly 15 byte steps.
C8_TerminatesBounded == [](C8_Counts) /\ (pc = "start" ~> pc = "done")

\* DecodeDigitalProductId has returned on a 200-byte buffer after one
\* decodeKeySegment call of 25 rounds and 375 steps
C8_Witness ==
    /\ pc = "done"
    /\ IsDPI
    /\ Len(data0) = 200
    /\ calls = 1
    /\ rounds = 25
    /\ steps = 375

-----------------------------------------------------------------------------
(* C9 *)

\* C9: at every inner step the remainder carried in is in 0..23, the
\* accumulator remainder*256 + byte is in 0..6143, the quotient stored back
\* is in 0..255 (the conversion to a byte does not truncate), and the
\* remainder that indexes the alphabet after byte 0 is in 0..23.
C9_NumericSafety ==
    /\ pc = "inner" => acc \in 0..23
    /\ (pc = "inner" /\ j >= 0) =>
          LET a == acc * 256 + Load(mem, tmp, j)
          IN /\ a \in 0..6143
             /\ a \div 24 \in 0..255
             /\ (a \div 24) % 256 = a \div 24
    /\ pc = "emit" => acc \in 0..23

\* the step whose accumulator is the largest possible, 23*256 + 255
C9_Witness ==
    /\ pc = "inner"
    /\ j >= 0
    /\ acc = 23
    /\ Load(mem, tmp, j) = 255

-----------------------------------------------------------------------------
(* C10 *)

\* C10: decodeKeySegment returns a 29-character string for every 15-byte
\* input (the length check at its end never fails); so for every buffer of
\* at least 67 bytes DecodeDigitalProductId returns a non-empty key, the
\* decoding of bytes 52..66, and never enters the fallback loop.
C10_Totality ==
    /\ pc = "check" => Len(decoded) = 29
    /\ Returned15 => Len(ret) = 29
    /\ (pc = "returned" /\ phase = "primary") =>
            Bytes(mem, seg) = Slice(data0, 52, 67)
    /\ (IsDPI /\ Len(data0) >= 67) => (scanIters = 0 /\ phase # "scan")
    /\ (pc = "done" /\ IsDPI /\ Len(data0) >= 67) =>
            /\ result # << >>
            /\ result = primaryRet
            /\ calls = 1
            /\ reads = 52..66

\* the all-zero 200-byte buffer yields BBBBB-BBBBB-BBBBB-BBBBB-BBBBB
C10_Witness ==
    /\ pc = "done"
    /\ IsDPI
    /\ data0 = Zeros(200)
    /\ result = Grouped(Zeros(25))
    /\ scanIters = 0

=============================================================================
